---- MODULE Spec2Model ----
(***************************************************************************)
(* The STEMI detection page (component Home): its React state, the model   *)
(* construction run by the mount effect, the file upload with its          *)
(* FileReader callback, and the asynchronous analyzeECG handler with the   *)
(* tensors it acquires from the numeric backend.                           *)
(*                                                                         *)
(* Two specifications share the module:                                    *)
(*   Spec     the page as an event-driven state machine (FairSpec adds the *)
(*            fairness of the browser's event loop);                       *)
(*   PreSpec  the pure tensor computation of preprocessImage, applied to   *)
(*            decoded images drawn from a bounded family.                  *)
(*                                                                         *)
(* The random "features" of the result (lines 109-114) are left out: no    *)
(* property below reads them.                                              *)
(***************************************************************************)
EXTENDS Integers, Sequences, FiniteSets, TLC

\* ---------------------------------------------------------------- bounds
\* Files 1..MaxFiles are images that decode; file 0 is a file that does not.
MaxFiles == 2
\* FileReaders that may be pending at once.
MaxReaders == 1
\* Analyses started in one session.
MaxAnalyses == 3
\* Cap on the analyses in flight that the model can represent.
MaxInFlight == 2
\* Probabilities are multiples of 1/PScale.
PScale == 4
\* Floating-point tolerance of p0 + p1 = 1, in units of 1/PScale: one unit
\* stands for one rounding step of the float32 softmax (for instance
\* p1 = 0.5 with p0 = 0.5 - 2^-25, which the softmax of two nearly equal
\* logits produces).
Tol == 1
\* Small image sides 1..MaxDim, besides the larger sides of ScenarioDims.
MaxDim == 2

\* ------------------------------------------------------ program constants
\* inputShape [224, 224, 3] and resizeNearestNeighbor([224, 224]).
TargetSize == 224
\* div(255.0)
PixelScale == 255
\* fromPixels keeps three channels (RGB).
Channels == 3
\* Weight tensors of the sequential model: kernel and bias of the three
\* conv2d and the two dense layers.
WeightTensors == 10

Null == [null |-> TRUE]

Max(a, b) == IF a > b THEN a ELSE b
Min(a, b) == IF a < b THEN a ELSE b

VARIABLES
  model,         \* useState: the LayersModel, or Null
  imagePreview,  \* useState: the data URL shown, or Null
  prediction,    \* useState: the result shown, or Null
  loading,       \* useState: an analysis is running
  modelLoading,  \* useState: the model is being built
  buildCount,    \* times loadModel has run
  loadFailed,    \* loadModel's catch block has run
  readers,       \* files of the FileReaders whose load is pending
  runs,          \* the analyzeECG invocations that have not returned
  numTensors,    \* tf.memory().numTensors: live backend tensors
  started,       \* analyses started
  history,       \* outcome of every analysis that has returned, in order
  lastRun,       \* the analysis that returned last, as it returned, or Null
  pimg,          \* PreSpec: the decoded image given to preprocessImage
  pshape         \* PreSpec: shape of the tensor preprocessImage resolved, or <<>>

pageVars == <<model, imagePreview, prediction, loading, modelLoading, buildCount,
              loadFailed, readers, runs, numTensors, started, history, lastRun>>
preVars == <<pimg, pshape>>
vars == <<pageVars, preVars>>

\* ------------------------------------------------------------ the inputs
Files == 0..MaxFiles
\* readAsDataURL encodes any file; whether an <img> decodes it is a property
\* of the file.
DataURL(f) == [file |-> f, decodes |-> f > 0]

\* The two softmax outputs read from predictions.data(): each in [0,1], their
\* sum within floating-point tolerance of 1.
ProbPairs ==
  {pp \in (0..PScale) \X (0..PScale) :
     /\ pp[1] + pp[2] - PScale <= Tol
     /\ PScale - (pp[1] + pp[2]) <= Tol}

ScenarioDims == {50, 100, 512}
Dims == (1..MaxDim) \cup ScenarioDims
Fills == {"zeros", "full", "gradient"}
Images == [h : Dims, w : Dims, fill : Fills]
NoImage == [h |-> 1, w |-> 1, fill |-> "zeros"]

\* ------------------------------------------------------------------ Init
PageInit ==
  /\ model = Null
  /\ imagePreview = Null
  /\ prediction = Null
  /\ loading = FALSE
  /\ modelLoading = TRUE
  /\ buildCount = 0
  /\ loadFailed = FALSE
  /\ readers = {}
  /\ runs = <<>>
  /\ numTensors = 0
  /\ started = 0
  /\ history = <<>>
  /\ lastRun = Null

Init ==
  /\ PageInit
  /\ pimg = NoImage
  /\ pshape = <<>>

\* ---------------------------------------------------------- the page
\* alert() is modal: while it is open no other handler or callback runs.
AlertOpen == \E i \in 1..Len(runs) : runs[i].pc = "alert"

\* useEffect(() => { loadModel(); }, []) runs once, after the first render.
EffectPendingEveryRender == buildCount < 2
EffectPending == buildCount = 0

\* loadModel: it has no await, so it runs to its end in one step.
LoadModel ==
  /\ EffectPending
  /\ buildCount' = buildCount + 1
  /\ \E ok \in BOOLEAN :
       IF ok
       THEN /\ model' = [id |-> buildCount + 1, weights |-> "initial"]
            /\ numTensors' = numTensors + WeightTensors
            /\ UNCHANGED loadFailed
       ELSE /\ loadFailed' = TRUE
            /\ UNCHANGED <<model, numTensors>>
  /\ modelLoading' = FALSE
  /\ UNCHANGED <<imagePreview, prediction, loading, readers, runs, started,
                 history, lastRun, preVars>>

\* The upload button: disabled={modelLoading}.
UploadDisabled == modelLoading

\* handleImageUpload with a file chosen: a FileReader starts reading it.
HandleImageUpload(f) ==
  /\ ~UploadDisabled
  /\ ~AlertOpen
  /\ Cardinality(readers) < MaxReaders
  /\ f \notin readers   \* a second read of the same file has the same effect
  /\ readers' = readers \cup {f}
  /\ UNCHANGED <<model, imagePreview, prediction, loading, modelLoading,
                 buildCount, loadFailed, runs, numTensors, started, history,
                 lastRun, preVars>>

\* reader.onload
ReaderOnload(f) ==
  /\ f \in readers
  /\ ~AlertOpen
  /\ imagePreview' = DataURL(f)
  /\ prediction' = Null
  /\ readers' = readers \ {f}
  /\ UNCHANGED <<model, loading, modelLoading, buildCount, loadFailed, runs,
                 numTensors, started, history, lastRun, preVars>>

\* The Analyze button is rendered when imagePreview is set; disabled={loading || !model}.
AnalyzeDisabledIgnoringLoading == model = Null
AnalyzeDisabled == loading \/ model = Null

\* A click on Analyze: analyzeECG up to its first await.  The handler closes
\* over the imagePreview and model of the render it belongs to.
AnalyzeClick ==
  /\ imagePreview # Null                    \* the button is rendered
  /\ ~AnalyzeDisabled
  /\ ~AlertOpen
  /\ ~(imagePreview = Null \/ model = Null)  \* analyzeECG's own early return
  /\ started < MaxAnalyses
  /\ Len(runs) < MaxInFlight
  /\ loading' = TRUE
  /\ started' = started + 1
  /\ runs' = Append(runs, [img |-> imagePreview, mdl |-> model, pc |-> "decode",
                           imageTensor |-> "none", predictions |-> "none"])
  /\ UNCHANGED <<model, imagePreview, prediction, modelLoading, buildCount,
                 loadFailed, readers, numTensors, history, lastRun, preVars>>

\* The operations chained in img.onload; each returns a new backend tensor.
ChainOps == <<"fromPixels", "resizeNearestNeighbor", "toFloat", "div", "expandDims">>

RemoveAt(s, i) == SubSeq(s, 1, i - 1) \o SubSeq(s, i + 1, Len(s))

\* img.onload of preprocessImage, then analyzeECG from the resolved await to
\* `await predictions.data()`, or into the catch block when predict throws.
\* An image that does not decode never fires onload (no onerror is set, and
\* the promise has no reject).
ImageOnload(i) ==
  /\ i \in 1..Len(runs)
  /\ runs[i].pc = "decode"
  /\ runs[i].img.decodes
  /\ ~AlertOpen
  /\ \E ok \in BOOLEAN :
       IF ok
       THEN /\ numTensors' = numTensors + Len(ChainOps) + 1
            /\ runs' = [runs EXCEPT ![i].pc = "data", ![i].imageTensor = "live",
                                    ![i].predictions = "live"]
       ELSE /\ numTensors' = numTensors + Len(ChainOps)
            /\ runs' = [runs EXCEPT ![i].pc = "alert", ![i].imageTensor = "live"]
  /\ UNCHANGED <<model, imagePreview, prediction, loading, modelLoading,
                 buildCount, loadFailed, readers, started, history, lastRun,
                 preVars>>

Urgent == "URGENT: Possible STEMI detected. Immediate medical attention required. Activate catheterization lab."
NoStemi == "No STEMI detected. Continue monitoring and clinical assessment."

\* The result object; p0 and p1 are in units of 1/PScale, so 0.5 is PScale/2.
\* ofImage records the image the run analysed (not a field of the code's object).
ResultTieIsStemi(p0, p1, img) ==
  [stemiDetected |-> 2 * p1 >= PScale,
   confidence |-> Max(p1, p0) * 100,
   stemiProbability |-> p1 * 100,
   noStemiProbability |-> p0 * 100,
   recommendation |-> IF 2 * p1 >= PScale THEN Urgent ELSE NoStemi,
   ofImage |-> img]
Result(p0, p1, img) ==
  [stemiDetected |-> 2 * p1 > PScale,
   confidence |-> Max(p1, p0) * 100,
   stemiProbability |-> p1 * 100,
   noStemiProbability |-> p0 * 100,
   recommendation |-> IF 2 * p1 > PScale THEN Urgent ELSE NoStemi,
   ofImage |-> img]

\* predictions.data() settles.  Resolved: the result is built and set, both
\* tensors are disposed, and the finally block runs.  Rejected: the catch block.
DataSettled(i) ==
  /\ i \in 1..Len(runs)
  /\ runs[i].pc = "data"
  /\ ~AlertOpen
  /\ \/ /\ \E pp \in ProbPairs :
             prediction' = Result(pp[1], pp[2], runs[i].img)
        /\ numTensors' = numTensors - 2
        /\ loading' = FALSE
        /\ lastRun' = [runs[i] EXCEPT !.pc = "returned", !.imageTensor = "disposed",
                                      !.predictions = "disposed"]
        /\ history' = Append(history, "ok")
        /\ runs' = RemoveAt(runs, i)
     \/ /\ runs' = [runs EXCEPT ![i].pc = "alert"]
        /\ UNCHANGED <<prediction, numTensors, loading, lastRun, history>>
  /\ UNCHANGED <<model, imagePreview, modelLoading, buildCount, loadFailed,
                 readers, started, preVars>>

\* The user dismisses the alert of the catch block; the finally block runs.
AlertDismiss(i) ==
  /\ i \in 1..Len(runs)
  /\ runs[i].pc = "alert"
  /\ loading' = FALSE
  /\ lastRun' = [runs[i] EXCEPT !.pc = "returned"]
  /\ history' = Append(history, "failed")
  /\ runs' = RemoveAt(runs, i)
  /\ UNCHANGED <<model, imagePreview, prediction, modelLoading, buildCount,
                 loadFailed, readers, numTensors, started, preVars>>

Next ==
  \/ LoadModel
  \/ \E f \in Files : HandleImageUpload(f)
  \/ \E f \in Files : ReaderOnload(f)
  \/ AnalyzeClick
  \/ \E i \in 1..MaxInFlight : ImageOnload(i)
  \/ \E i \in 1..MaxInFlight : DataSettled(i)
  \/ \E i \in 1..MaxInFlight : AlertDismiss(i)

Spec == Init /\ [][Next]_vars

\* The event loop runs every callback that is ready, and the user dismisses
\* an open alert; uploads and clicks are the user's choice.
FairSpec ==
  /\ Spec
  /\ WF_vars(LoadModel)
  /\ WF_vars(\E f \in Files : ReaderOnload(f))
  /\ WF_vars(\E i \in 1..MaxInFlight : ImageOnload(i))
  /\ WF_vars(\E i \in 1..MaxInFlight : DataSettled(i))
  /\ WF_vars(\E i \in 1..MaxInFlight : AlertDismiss(i))

\* ------------------------------------------------- preprocessImage, as tensors
\* A tensor is its shape and its element at each index.  The decoded image
\* is the input: Pixel is the channel value (0..255) the canvas reads at a
\* pixel.
Pixel(img, y, x, c) ==
  CASE img.fill = "zeros" -> 0
    [] img.fill = "full" -> 255
    [] OTHER -> (17 * y + 29 * x + 101 * c + 7) % 256

\* tf.browser.fromPixels(img): an int32 tensor of shape [height, width, 3].
fromPixelsShape(img) == <<img.h, img.w, Channels>>
fromPixels(img, y, x, c) == Pixel(img, y, x, c)

\* The source index resizeNearestNeighbor reads for output index o
\* (alignCorners false): floor(o * inSize / outSize), clamped to the input.
SourceIndex(o, inSize, outSize) == Min(inSize - 1, (o * inSize) \div outSize)

\* .resizeNearestNeighbor([224, 224])
resizeNearestNeighborShape(img) == <<TargetSize, TargetSize, fromPixelsShape(img)[3]>>
resizeNearestNeighbor(img, r, c, k) ==
  fromPixels(img, SourceIndex(r, fromPixelsShape(img)[1], TargetSize),
                  SourceIndex(c, fromPixelsShape(img)[2], TargetSize), k)

\* .toFloat(): the same number as a float, kept as the fraction num/den.
toFloat(img, r, c, k) == [num |-> resizeNearestNeighbor(img, r, c, k), den |-> 1]

\* .div(255.0)
divBy256(img, r, c, k) ==
  [num |-> toFloat(img, r, c, k).num, den |-> toFloat(img, r, c, k).den * 256]
div(img, r, c, k) ==
  [num |-> toFloat(img, r, c, k).num, den |-> toFloat(img, r, c, k).den * PixelScale]

\* .expandDims(0): a leading batch axis of size 1.
expandDimsShape(img) == <<1>> \o resizeNearestNeighborShape(img)
expandDims(img, b, r, c, k) == div(img, r, c, k)

PreInit ==
  /\ PageInit
  /\ pimg \in Images
  /\ pshape = <<>>

\* img.onload of preprocessImage on a decoded image: the chain is evaluated
\* and the promise resolves with its last tensor.
PreprocessOnload ==
  /\ pshape = <<>>
  /\ pshape' = expandDimsShape(pimg)
  /\ UNCHANGED <<pimg, pageVars>>

PreNext == PreprocessOnload

PreSpec == PreInit /\ [][PreNext]_vars

\* ------------------------------------------------------------- properties
Returned == history # <<>>
LastOutcome == history[Len(history)]
Idle == runs = <<>>

\* C1: when an analysis has returned, on any exit path, neither its input
\* tensor nor its output tensor is still live.
TensorsReleasedOnExit ==
  lastRun # Null => lastRun.imageTensor # "live" /\ lastRun.predictions # "live"

\* C2: after N >= 1 sequential successful analyses the number of live
\* backend tensors is what it was before the first one (the model's weights).
NoLeakAfterSuccess ==
  (Idle /\ Returned /\ \A j \in 1..Len(history) : history[j] = "ok")
    => numTensors = WeightTensors

\* C3: after an analysis has failed and returned, no result is displayed.
FailedAnalysisResetsResult ==
  (Idle /\ Returned /\ LastOutcome = "failed") => prediction = Null

\* C4: every analysis that is started eventually returns, with loading false.
EveryAnalysisEnds == loading ~> ~loading

\* C5: at most one analyzeECG invocation is in flight.
AtMostOneInFlight == Len(runs) <= 1

SecondAnalysisInFlight == Len(runs) = 1 /\ loading /\ Returned /\ started >= 2

\* C6: loadModel runs at most once, and once the model state holds an
\* instance no step replaces or changes it.
ModelBuiltOnceReadOnly ==
  [][(model # Null => model' = model) /\ buildCount' <= 1]_vars

ModelUsedAndKept ==
  /\ model # Null
  /\ imagePreview # Null
  /\ \E j \in 1..Len(history) : history[j] = "ok"
  /\ model = lastRun.mdl

\* C7: preprocessImage resolves a tensor of shape (1,224,224,3) whose every
\* value is the nearest-neighbour source pixel's channel value over 255, in
\* [0,1]; an all-zero image gives all zeros, an all-255 image all ones.
PreprocessCorrect ==
  pshape # <<>> =>
    /\ pshape = <<1, 224, 224, 3>>
    /\ \A r \in 0..223, c \in 0..223, k \in 0..2 :
         LET q == expandDims(pimg, 0, r, c, k)
             src == Pixel(pimg, (r * pimg.h) \div 224, (c * pimg.w) \div 224, k)
         IN /\ q.den > 0
            /\ q.num * 255 = src * q.den
            /\ 0 <= q.num /\ q.num <= q.den
            /\ pimg.fill = "zeros" => q.num = 0
            /\ pimg.fill = "full" => q.num = q.den

PreprocessedScenario ==
  /\ pshape # <<>>
  /\ pimg = [h |-> 50, w |-> 100, fill |-> "full"]
  /\ expandDims(pimg, 0, 223, 223, 2).num = expandDims(pimg, 0, 223, 223, 2).den

\* C8: a failed model construction does not leave the page in its ready
\* state with no model and no error shown to the user.
ConstructionFailureSurfaced ==
  loadFailed => ~(~modelLoading /\ ~UploadDisabled /\ model = Null /\ ~AlertOpen)

\* C9: a prediction displayed with a preview was computed from that image.
PredictionMatchesPreview ==
  (prediction # Null /\ imagePreview # Null) => prediction.ofImage = imagePreview

\* C10 as stated: STEMI is reported exactly when p1 > 0.5, the URGENT
\* recommendation exactly with it, and confidence is 100 times the larger
\* probability, which is the probability of the reported class.
P0 == prediction.noStemiProbability \div 100
P1 == prediction.stemiProbability \div 100
ReportedClassProbability == IF prediction.stemiDetected THEN P1 ELSE P0
ResultShape ==
  /\ prediction.stemiDetected <=> 2 * P1 > PScale
  /\ (prediction.recommendation = Urgent) <=> prediction.stemiDetected
  /\ prediction.confidence = 100 * Max(P0, P1)

ResultReportsClass ==
  prediction # Null =>
    /\ ResultShape
    /\ prediction.confidence = 100 * ReportedClassProbability

\* C10 as amended: the confidence is 100 times the larger probability, and
\* that is the reported class's probability when p0 + p1 is exactly 1.
ResultReportsLargerProbability ==
  prediction # Null =>
    /\ ResultShape
    /\ P0 + P1 = PScale => prediction.confidence = 100 * ReportedClassProbability

TieReportsNoStemi ==
  /\ prediction # Null
  /\ 2 * P1 = PScale /\ P0 = P1
  /\ ~prediction.stemiDetected
  /\ prediction.recommendation = NoStemi
  /\ prediction.confidence = 100 * P1

====
